---- MODULE Spec2Model ----
(***************************************************************************)
(* A model of package cmdline (src/cmdline.go): the typed value slots,     *)
(* the flag registry CmdParser and the token parser ParseFromString with   *)
(* its file front end ParseFromFile.                                       *)
(*                                                                         *)
(* A Go string is modelled as a sequence of one-character strings, so that *)
(* prefixes, whitespace splitting, comment stripping and number decoding   *)
(* are computed character by character as the code computes them.         *)
(***************************************************************************)
EXTENDS Integers, Sequences, FiniteSets, TLC

VARIABLES
    vars,   \* CmdParser.vars: flag name -> slot
    pc,     \* position of the calling program: "idle", "returned", "panicked"
    call,   \* the call that has just returned (operation, arguments, result)
    pre     \* CmdParser.vars as it was when that call was made

allvars == <<vars, pc, call, pre>>

(***************************************************************************)
(* FlagArgType                                                             *)
(***************************************************************************)
IntFlag == 0
Int64Flag == 1
FloatFlag == 2
StringFlag == 3
BoolFlag == 4
None == 5

ValidKinds == {IntFlag, Int64Flag, FloatFlag, StringFlag, BoolFlag}

(***************************************************************************)
(* Strings                                                                 *)
(***************************************************************************)
\* unicode.IsSpace restricted to the ASCII characters of the model
IsSpace(c) == c \in {" ", "\t", "\n", "\r", "\f"}

RECURSIVE FieldsFrom(_, _, _, _)
FieldsFrom(s, i, cur, acc) ==
    IF i > Len(s)
    THEN IF cur = <<>> THEN acc ELSE Append(acc, cur)
    ELSE IF IsSpace(s[i])
         THEN FieldsFrom(s, i + 1, <<>>, IF cur = <<>> THEN acc ELSE Append(acc, cur))
         ELSE FieldsFrom(s, i + 1, Append(cur, s[i]), acc)

\* strings.Fields
Fields(s) == FieldsFrom(s, 1, <<>>, <<>>)

\* strings.HasPrefix
HasPrefix(s, prefix) ==
    /\ Len(s) >= Len(prefix)
    /\ SubSeq(s, 1, Len(prefix)) = prefix

\* strings.Index: 0 when old does not occur in s
Index(s, old) ==
    LET hits == {i \in 1..(Len(s) - Len(old) + 1) : SubSeq(s, i, i + Len(old) - 1) = old}
    IN IF hits = {} THEN 0 ELSE CHOOSE i \in hits : \A j \in hits : i <= j

\* strings.Replace(s, old, new, 1) for a non-empty old
ReplaceFirst(s, old, new) ==
    LET i == Index(s, old)
    IN IF i = 0 THEN s
       ELSE SubSeq(s, 1, i - 1) \o new \o SubSeq(s, i + Len(old), Len(s))

RECURSIVE Join(_, _)
\* strings.Join
Join(elems, sep) ==
    IF elems = <<>> THEN <<>>
    ELSE IF Len(elems) = 1 THEN elems[1]
    ELSE elems[1] \o sep \o Join(Tail(elems), sep)

(***************************************************************************)
(* strconv                                                                 *)
(***************************************************************************)
DigitChars == <<"0", "1", "2", "3", "4", "5", "6", "7", "8", "9">>

IsDigit(c) == \E i \in 1..10 : DigitChars[i] = c

DigitVal(c) == (CHOOSE i \in 1..10 : DigitChars[i] = c) - 1

RECURSIVE DigitsValue(_, _)
DigitsValue(s, acc) ==
    IF s = <<>> THEN acc ELSE DigitsValue(Tail(s), acc * 10 + DigitVal(s[1]))

AllDigits(s) == \A i \in 1..Len(s) : IsDigit(s[i])

HasSign(s) == s # <<>> /\ s[1] \in {"+", "-"}

Unsigned(s) == IF HasSign(s) THEN Tail(s) ELSE s

\* strconv.ParseInt(s, 10, 64) returns a nil error.  The tokens of the model are
\* a few characters long, so the range error (19 digits and more) cannot arise.
ParseIntOk(s) == Unsigned(s) # <<>> /\ AllDigits(Unsigned(s))

\* strconv.ParseInt(s, 10, 64), the value when the error is nil
ParseIntValue(s) ==
    LET v == DigitsValue(Unsigned(s), 0)
    IN IF HasSign(s) /\ s[1] = "-" THEN 0 - v ELSE v

\* A float64 read from decimal text is kept as m * 10^(-e), trailing zeros of the
\* fraction removed, so that "1.5", "1.50" and "+1.5" decode to the same value.
RECURSIVE NormFloat(_, _)
NormFloat(m, e) ==
    IF e > 0 /\ m % 10 = 0 THEN NormFloat(m \div 10, e - 1) ELSE [m |-> m, e |-> e]

FloatZero == [m |-> 0, e |-> 0]

DotAt(s) == Index(s, <<".">>)

IntPart(s) == IF DotAt(s) = 0 THEN s ELSE SubSeq(s, 1, DotAt(s) - 1)

FracPart(s) == IF DotAt(s) = 0 THEN <<>> ELSE SubSeq(s, DotAt(s) + 1, Len(s))

\* strconv.ParseFloat(s, 64) returns a nil error, for decimal text without an
\* exponent: [+-] digits [. digits] with at least one digit.  The tokens of the
\* model hold no exponent, no hexadecimal mantissa and no "inf" or "nan".
ParseFloatOk(s) ==
    LET u == Unsigned(s)
    IN /\ AllDigits(IntPart(u))
       /\ AllDigits(FracPart(u))
       /\ Len(IntPart(u)) + Len(FracPart(u)) > 0

\* strconv.ParseFloat(s, 64), the value when the error is nil
ParseFloatValue(s) ==
    LET u == Unsigned(s)
        mag == DigitsValue(IntPart(u) \o FracPart(u), 0)
        m == IF HasSign(s) /\ s[1] = "-" THEN 0 - mag ELSE mag
    IN NormFloat(m, Len(FracPart(u)))

(***************************************************************************)
(* Typed value slots.  The five struct types intVar .. boolVar are one     *)
(* record: kind says which struct it is, and the payload v_value is the    *)
(* field of that kind (v_int for intVar and int64Var, v_float, v_str,      *)
(* v_bool); the payload fields of the other kinds stay at their zero.      *)
(***************************************************************************)
\* createIntVar .. createBoolVar
createVar(kind, name, req) ==
    [kind |-> kind, v_name |-> name, v_req |-> req, v_loaded |-> FALSE,
     v_int |-> 0, v_float |-> FloatZero, v_str |-> <<>>, v_bool |-> FALSE]

\* intVar.Set, were it to store the value before it looks at the error
SetInt_StoresOnError(vs, value) ==
    IF ~ParseIntOk(value) THEN [vs EXCEPT !.v_int = 0]
    ELSE [vs EXCEPT !.v_int = ParseIntValue(value), !.v_loaded = TRUE]

\* intVar.Set, were it to mark the slot unloaded on a decode failure
SetInt_ClearsLoaded(vs, value) ==
    IF ~ParseIntOk(value) THEN [vs EXCEPT !.v_loaded = FALSE]
    ELSE [vs EXCEPT !.v_int = ParseIntValue(value), !.v_loaded = TRUE]

\* intVar.Set, int64Var.Set
SetInt(vs, value) ==
    IF ~ParseIntOk(value) THEN vs
    ELSE [vs EXCEPT !.v_int = ParseIntValue(value), !.v_loaded = TRUE]

\* floatVar.Set
SetFloat(vs, value) ==
    IF ~ParseFloatOk(value) THEN vs
    ELSE [vs EXCEPT !.v_float = ParseFloatValue(value), !.v_loaded = TRUE]

\* stringVar.Set
SetString(vs, value) == [vs EXCEPT !.v_str = value, !.v_loaded = TRUE]

\* the literals boolVar.Set compares with
BoolTrueForms == {<<"T">>, <<"t">>, <<"T", "r", "u", "e">>, <<"t", "r", "u", "e">>}

\* a comparison without regard to case: the lower case of the letters of "TRUE"
LowerChar(c) ==
    CASE c = "T" -> "t" [] c = "R" -> "r" [] c = "U" -> "u" [] c = "E" -> "e" [] OTHER -> c

ToLower(s) == [i \in 1..Len(s) |-> LowerChar(s[i])]

\* boolVar.Set, were it to compare without regard to case
SetBool_FoldsCase(vs, value) ==
    [vs EXCEPT !.v_bool = (ToLower(value) \in {<<"t">>, <<"t", "r", "u", "e">>}),
               !.v_loaded = TRUE]

\* boolVar.Set
SetBool(vs, value) ==
    [vs EXCEPT !.v_bool = (value \in BoolTrueForms), !.v_loaded = TRUE]

\* arg.Set, dispatched on the slot's type
Set(vs, value) ==
    CASE vs.kind \in {IntFlag, Int64Flag} -> SetInt(vs, value)
      [] vs.kind = FloatFlag -> SetFloat(vs, value)
      [] vs.kind = StringFlag -> SetString(vs, value)
      [] vs.kind = BoolFlag -> SetBool(vs, value)

\* arg.Get
Get(vs) ==
    CASE vs.kind \in {IntFlag, Int64Flag} -> vs.v_int
      [] vs.kind = FloatFlag -> vs.v_float
      [] vs.kind = StringFlag -> vs.v_str
      [] vs.kind = BoolFlag -> vs.v_bool

(***************************************************************************)
(* The registry, as functions of the map cp.vars                           *)
(***************************************************************************)
\* cp.vars[name] = v
MapPut(m, name, v) ==
    [k \in (DOMAIN m) \cup {name} |-> IF k = name THEN v ELSE m[k]]

\* AddFlag, were it to leave a name that is already declared alone
AddFlagVars_KeepsExisting(m, arg_type, arg_name, arg_req) ==
    IF arg_type \in ValidKinds /\ arg_name \notin DOMAIN m
    THEN MapPut(m, arg_name, createVar(arg_type, arg_name, arg_req))
    ELSE m

\* CmdParser.AddFlag: the map after the call
AddFlagVars(m, arg_type, arg_name, arg_req) ==
    IF arg_type \in ValidKinds
    THEN MapPut(m, arg_name, createVar(arg_type, arg_name, arg_req))
    ELSE m

\* CmdParser.SetVar on a registered name: the map after the call
SetVarVars(m, name, value) == [m EXCEPT ![name] = Set(m[name], value)]

\* CmdParser.IsFlag
IsFlagIn(m, name) == name \in DOMAIN m

\* CmdParser.IsLoaded
IsLoadedIn(m, name) == IF ~IsFlagIn(m, name) THEN FALSE ELSE m[name].v_loaded

\* CmdParser.IsRequired
IsRequiredIn(m, name) == IF ~IsFlagIn(m, name) THEN FALSE ELSE m[name].v_req

\* CmdParser.GetVar on a registered name (it panics on any other)
GetVarIn(m, name) == Get(m[name])

(***************************************************************************)
(* CmdParser.ParseFromString                                               *)
(***************************************************************************)
Dash == <<"-">>

TrueText == <<"t", "r", "u", "e">>

\* a flag with no value of its own: the pair of line 433
FlagPair_EmptyValue(pieces, idx) ==
    [flag |-> ReplaceFirst(pieces[idx], Dash, <<>>), value |-> <<>>]

FlagPair(pieces, idx) ==
    [flag |-> ReplaceFirst(pieces[idx], Dash, <<>>), value |-> TrueText]

\* a flag and the token after it: the pair of line 437
ValuePair_OffByOne(pieces, idx) ==
    [flag |-> ReplaceFirst(pieces[idx], Dash, <<>>), value |-> pieces[idx]]

ValuePair(pieces, idx) ==
    [flag |-> ReplaceFirst(pieces[idx], Dash, <<>>), value |-> pieces[idx + 1]]

RECURSIVE ScanPieces(_, _, _)
\* the first loop: flag/value pairs, or failure at a token that is no flag
ScanPieces(pieces, idx, cmdVar) ==
    IF idx > Len(pieces) THEN [ok |-> TRUE, cmdVar |-> cmdVar]
    ELSE IF /\ HasPrefix(pieces[idx], Dash)
            /\ (idx = Len(pieces) \/ HasPrefix(pieces[idx + 1], Dash))
         THEN ScanPieces(pieces, idx + 1, Append(cmdVar, FlagPair(pieces, idx)))
         ELSE IF HasPrefix(pieces[idx], Dash)
              THEN ScanPieces(pieces, idx + 2, Append(cmdVar, ValuePair(pieces, idx)))
              ELSE [ok |-> FALSE, cmdVar |-> cmdVar]

RECURSIVE ApplyPairs(_, _)
\* the loop that sets the variables: pairs of undeclared flags are skipped
ApplyPairs(m, cmdVar) ==
    IF cmdVar = <<>> THEN m
    ELSE ApplyPairs(IF cmdVar[1].flag \in DOMAIN m
                    THEN SetVarVars(m, cmdVar[1].flag, cmdVar[1].value)
                    ELSE m,
                    Tail(cmdVar))

\* the last loop: the required flags that are not loaded
MissingRequired(m) == {name \in DOMAIN m : m[name].v_req /\ ~m[name].v_loaded}

\* ParseFromString, were it to apply the pairs read before the offending token
ParseString_AppliesBeforeFailing(m, cmd_string) ==
    LET scan == ScanPieces(Fields(cmd_string), 1, <<>>)
        applied == ApplyPairs(m, scan.cmdVar)
    IN [ret |-> scan.ok /\ MissingRequired(applied) = {}, vars |-> applied]

\* ParseFromString, were it to undo the values when a required flag is missing
ParseString_RollsBack(m, cmd_string) ==
    LET scan == ScanPieces(Fields(cmd_string), 1, <<>>)
        applied == ApplyPairs(m, scan.cmdVar)
    IN IF ~scan.ok \/ MissingRequired(applied) # {} THEN [ret |-> FALSE, vars |-> m]
       ELSE [ret |-> TRUE, vars |-> applied]

\* ParseFromString, were the return of line 458 not commented out
ParseString_FailsOnUndeclared(m, cmd_string) ==
    LET scan == ScanPieces(Fields(cmd_string), 1, <<>>)
        applied == ApplyPairs(m, scan.cmdVar)
    IN IF ~scan.ok \/ (\E i \in 1..Len(scan.cmdVar) : scan.cmdVar[i].flag \notin DOMAIN m)
       THEN [ret |-> FALSE, vars |-> m]
       ELSE [ret |-> MissingRequired(applied) = {}, vars |-> applied]

\* the whole of ParseFromString: the value returned and the map after the call
ParseString(m, cmd_string) ==
    LET scan == ScanPieces(Fields(cmd_string), 1, <<>>)
        applied == ApplyPairs(m, scan.cmdVar)
    IN IF ~scan.ok THEN [ret |-> FALSE, vars |-> m]
       ELSE [ret |-> MissingRequired(applied) = {}, vars |-> applied]

(***************************************************************************)
(* CmdParser.ParseFromFile                                                 *)
(***************************************************************************)
\* bufio.ScanLines drops one carriage return at the end of a line
DropCR(line) ==
    IF line # <<>> /\ line[Len(line)] = "\r" THEN SubSeq(line, 1, Len(line) - 1) ELSE line

RECURSIVE ScanLines(_)
\* the lines bufio.Scanner yields: the text between newlines, and a last line
\* without a newline when it is not empty
ScanLines(data) ==
    IF data = <<>> THEN <<>>
    ELSE LET i == Index(data, <<"\n">>)
         IN IF i = 0 THEN <<DropCR(data)>>
            ELSE <<DropCR(SubSeq(data, 1, i - 1))>> \o ScanLines(SubSeq(data, i + 1, Len(data)))

RECURSIVE CommentLoop(_, _, _)
\* the loop over the characters of one line; idx counts from 1 here, so the
\* code's idx is idx - 1 and its nxt_line[whitespace:idx] is
\* SubSeq(nxt_line, whitespace + 1, idx - 1).  A character converted to a
\* string is never "", so the first comparison is false for every character.
CommentLoop(nxt_line, idx, whitespace) ==
    IF idx > Len(nxt_line) THEN nxt_line
    ELSE IF nxt_line[idx] = "" \/ nxt_line[idx] = "\t"
         THEN CommentLoop(nxt_line, idx + 1, whitespace + 1)
         ELSE IF nxt_line[idx] = "#"
              THEN IF whitespace = idx - 1
                   THEN <<>>
                   ELSE SubSeq(nxt_line, whitespace + 1, idx - 1)
              ELSE CommentLoop(nxt_line, idx + 1, whitespace)

RECURSIVE ReadLines(_, _)
\* the loop over the lines: cmd_string after the last line
ReadLines(lines, cmd_string) ==
    IF lines = <<>> THEN cmd_string
    ELSE IF lines[1] = <<>> THEN ReadLines(Tail(lines), cmd_string)
    ELSE LET nxt_line == CommentLoop(lines[1], 1, 0)
         IN IF nxt_line # <<>>
            THEN ReadLines(Tail(lines),
                     cmd_string \o <<" ">> \o ReplaceFirst(nxt_line, <<"\n">>, <<>>))
            ELSE ReadLines(Tail(lines), cmd_string)

\* the string ParseFromFile hands to ParseFromString
FileCmdString(data) == ReadLines(ScanLines(data), <<>>)

\* the whole of ParseFromFile: the value returned and the map after the call
ParseFile(m, opened, data) ==
    IF ~opened THEN [ret |-> FALSE, vars |-> m]
    ELSE ParseString(m, FileCmdString(data))

(***************************************************************************)
(* Bounds and the inputs drawn within them                                 *)
(***************************************************************************)
\* most tokens of a command line built from Tokens
MaxTokens == 3

\* most lines of a flag file built from FileLines
MaxLines == 2

FlagNames == {<<"n">>, <<"s">>}

\* the five kinds, None, and a value past the end of the enumeration
Kinds == ValidKinds \cup {None, None + 1}

Tokens == {<<"-", "n">>, <<"-", "s">>, <<"5">>, <<"-", "5">>, <<"h", "i">>}

TokenSeqs == UNION {[1..k -> Tokens] : k \in 0..MaxTokens}

\* command lines that exercise the whitespace splitting, a doubled dash, a flag
\* name that is never declared, and "true" written out
ExtraCmdStrings ==
    { <<" ", " ", "-", "n", " ", "\t", "5", "\n">>,
      <<"-", "-", "n", " ", "5">>,
      <<"-", "x", " ", "5", " ", "-", "n", " ", "5">>,
      <<"-", "s", " ", "t", "r", "u", "e", " ", "-", "n">> }

CmdStrings == {Join(ts, <<" ">>) : ts \in TokenSeqs} \cup ExtraCmdStrings

\* raw values handed to SetVar beside the parser
Raws == {<<"5">>, <<"h", "i">>}

\* raw values for the slots' decoders
SlotRaws ==
    { <<>>, <<"5">>, <<"-", "5">>, <<"+", "5">>, <<"5", "x">>, <<"1", ".", "5">>,
      <<"1", ".", "5", "0">>, <<".">>, <<"h", "i">>,
      <<"t">>, <<"T">>, <<"t", "r", "u", "e">>, <<"T", "r", "u", "e">>,
      <<"T", "R", "U", "E">>, <<"t", "R", "u", "e">>, <<"f">> }

FileLines ==
    { <<>>,
      <<"-", "n", " ", "5", " ", "#", " ", "c">>,
      <<"-", "s", " ", "h", "i">>,
      <<"-", "n", "\t", "5", " ", "#", "c">>,
      <<"\t", "-", "n", " ", "5", "#">>,
      <<"\t", "#", "c">>,
      <<" ", " ", "#", "c">>,
      <<"#", "-", "n", " ", "5">>,
      <<"-", "s", "\t", "#">> }

LineSeqs == UNION {[1..k -> FileLines] : k \in 0..MaxLines}

\* every line ends with a newline
FileOf(lines) == IF lines = <<>> THEN <<>> ELSE Join(lines, <<"\n">>) \o <<"\n">>

Files == {FileOf(ls) : ls \in LineSeqs}

\* the file of the documentation's example, one with carriage returns and no
\* final newline, and one with a tab before the comment
SmallFiles ==
    { <<"-", "n", " ", "5", " ", "#", " ", "c", "\n", "\n", "-", "s", " ", "h", "i", "\n">>,
      <<"-", "s", " ", "h", "i", "\r", "\n", "-", "n", " ", "5">>,
      <<"-", "n", "\t", "5", " ", "#", "c", "\n">> }

(***************************************************************************)
(* The program: a caller that owns one CmdParser and calls its methods one *)
(* after the other.  call and pre record the call that has just returned;  *)
(* Return is the caller going on to its next call.                         *)
(***************************************************************************)
EmptyMap == [name \in {} |-> createVar(None, <<>>, FALSE)]

NoCall ==
    [op |-> "none", kind |-> None, name |-> <<>>, req |-> FALSE, str |-> <<>>,
     opened |-> TRUE, ret |-> TRUE]

\* NewCmdParser
Init ==
    /\ vars = EmptyMap
    /\ pc = "idle"
    /\ call = NoCall
    /\ pre = EmptyMap

AddFlag(arg_type, arg_name, arg_req) ==
    /\ pc = "idle"
    /\ vars' = AddFlagVars(vars, arg_type, arg_name, arg_req)
    /\ pre' = vars
    /\ call' = [NoCall EXCEPT !.op = "AddFlag", !.kind = arg_type, !.name = arg_name,
                              !.req = arg_req]
    /\ pc' = "returned"

\* cp.vars[name] of a name that is not declared is a nil interface, and the call
\* of Set on it panics
SetVar(name, value) ==
    /\ pc = "idle"
    /\ pre' = vars
    /\ call' = [NoCall EXCEPT !.op = "SetVar", !.name = name, !.str = value]
    /\ IF name \in DOMAIN vars
       THEN /\ vars' = SetVarVars(vars, name, value)
            /\ pc' = "returned"
       ELSE /\ vars' = vars
            /\ pc' = "panicked"

ParseFromString(cmd_string) ==
    /\ pc = "idle"
    /\ LET r == ParseString(vars, cmd_string)
       IN /\ vars' = r.vars
          /\ call' = [NoCall EXCEPT !.op = "ParseFromString", !.str = cmd_string,
                                    !.ret = r.ret]
    /\ pre' = vars
    /\ pc' = "returned"

ParseFromFile(opened, data) ==
    /\ pc = "idle"
    /\ LET r == ParseFile(vars, opened, data)
       IN /\ vars' = r.vars
          /\ call' = [NoCall EXCEPT !.op = "ParseFromFile", !.str = data,
                                    !.opened = opened, !.ret = r.ret]
    /\ pre' = vars
    /\ pc' = "returned"

Return ==
    /\ pc = "returned"
    /\ pc' = "idle"
    /\ call' = NoCall
    /\ pre' = vars
    /\ UNCHANGED vars

DoAddFlag == \E k \in Kinds, name \in FlagNames, req \in BOOLEAN : AddFlag(k, name, req)

DoSetVar == \E name \in FlagNames, value \in Raws : SetVar(name, value)

DoParseFromString == \E s \in CmdStrings : ParseFromString(s)

DoParseFromFile ==
    \/ \E data \in SmallFiles : ParseFromFile(TRUE, data)
    \/ ParseFromFile(FALSE, <<>>)

Next ==
    \/ DoAddFlag
    \/ DoSetVar
    \/ DoParseFromString
    \/ DoParseFromFile
    \/ Return

Spec == Init /\ [][Next]_allvars

\* the slots' decoders on their own: declare flags and set them
DoSetSlot == \E name \in FlagNames, value \in SlotRaws : SetVar(name, value)

NextSet ==
    \/ DoAddFlag
    \/ DoSetSlot
    \/ Return

SpecSet == Init /\ [][NextSet]_allvars

\* flag files: declare flags and parse files
DoParseFiles == \E data \in Files : ParseFromFile(TRUE, data)

NextFile ==
    \/ DoAddFlag
    \/ DoParseFiles
    \/ Return

SpecFile == Init /\ [][NextFile]_allvars

(***************************************************************************)
(* What the properties below read of a call that has returned              *)
(***************************************************************************)
Returned(op) == pc = "returned" /\ call.op = op

\* the tokens of the string given to the call
Pieces == Fields(call.str)

\* a token that begins with '-'
IsFlagTok(p) == p # <<>> /\ p[1] = "-"

\* the token naming the flag
FlagTok(name) == <<"-">> \o name

\* no token without a leading '-' stands where a flag is expected: each one
\* comes right after a token with a leading '-', which takes it as its value
WellFormed(pieces) ==
    \A i \in 1..Len(pieces) : ~IsFlagTok(pieces[i]) => (i > 1 /\ IsFlagTok(pieces[i - 1]))

\* the flag token at position i has no value of its own
NoValueAt(pieces, i) == i = Len(pieces) \/ IsFlagTok(pieces[i + 1])

\* the value the flag token at position i is paired with
ValueAt(pieces, i) == IF NoValueAt(pieces, i) THEN <<"t", "r", "u", "e">> ELSE pieces[i + 1]

\* the positions of the flag tokens naming the flag
Occurrences(pieces, name) == {i \in 1..Len(pieces) : pieces[i] = FlagTok(name)}

\* the token is a valid encoding for the kind
ValidFor(kind, tok) ==
    CASE kind \in {IntFlag, Int64Flag} -> ParseIntOk(tok)
      [] kind = FloatFlag -> ParseFloatOk(tok)
      [] kind \in {StringFlag, BoolFlag} -> TRUE

\* the slot is loaded and holds the decoded value of the token
HoldsDecoded(vs, tok) ==
    /\ vs.v_loaded
    /\ CASE vs.kind \in {IntFlag, Int64Flag} -> vs.v_int = ParseIntValue(tok)
         [] vs.kind = FloatFlag -> vs.v_float = ParseFloatValue(tok)
         [] vs.kind = StringFlag -> vs.v_str = tok
         [] vs.kind = BoolFlag ->
                vs.v_bool = (tok \in {<<"T">>, <<"t">>, <<"T", "r", "u", "e">>,
                                      <<"t", "r", "u", "e">>})

\* the flag is declared, given once, at position i, in a well-formed stream, and
\* the next token is a valid encoding for its kind
GivenWithValue(pieces, name, i) ==
    /\ name \in DOMAIN pre
    /\ i < Len(pieces)
    /\ pieces[i] = FlagTok(name)
    /\ Occurrences(pieces, name) = {i}
    /\ ValidFor(pre[name].kind, pieces[i + 1])
    /\ WellFormed(pieces)

(***************************************************************************)
(* C1                                                                      *)
(***************************************************************************)
\* C1, as claimed: when the string holds '-<name>' right before a token that is
\* a valid encoding for the flag's kind (a negative integer, or any token for a
\* String flag), the flag is loaded after the parse and GetVar is the decoded
\* value of that token.  Read in the claim's favour: the stream is well-formed
\* and the flag is given once.
C1_AsClaimed ==
    Returned("ParseFromString") =>
        LET pieces == Pieces
        IN \A name \in DOMAIN pre : \A i \in 1..Len(pieces) :
               GivenWithValue(pieces, name, i) => HoldsDecoded(vars[name], pieces[i + 1])

\* C1, amended: the same, for a value token that does not begin with '-' (a
\* token that does is read as the next flag, so a negative number cannot be
\* given as a value).
C1_ValueWithoutDash ==
    Returned("ParseFromString") =>
        LET pieces == Pieces
        IN \A name \in DOMAIN pre : \A i \in 1..Len(pieces) :
               (GivenWithValue(pieces, name, i) /\ ~IsFlagTok(pieces[i + 1]))
                   => (IsLoadedIn(vars, name) /\ HoldsDecoded(vars[name], pieces[i + 1]))

C1_Witness ==
    /\ Returned("ParseFromString")
    /\ \E name \in DOMAIN pre :
        /\ GivenWithValue(Pieces, name, 1)
        /\ Pieces[2] = <<"5">>
        /\ pre[name].kind = IntFlag
        /\ ~pre[name].v_loaded
        /\ IsLoadedIn(vars, name)
        /\ GetVarIn(vars, name) = 5

(***************************************************************************)
(* C3                                                                      *)
(***************************************************************************)
\* C3: when a token without a leading '-' stands where a flag is expected, at
\* any position, ParseFromString returns false and the registry is what it was
\* before the call.
C3_MalformedChangesNothing ==
    Returned("ParseFromString") =>
        (~WellFormed(Pieces) => (call.ret = FALSE /\ vars = pre))

\* a well-formed pair for a declared, unloaded flag comes before the offending
\* token
C3_Witness ==
    /\ Returned("ParseFromString")
    /\ Len(Pieces) = 3
    /\ ~IsFlagTok(Pieces[2]) /\ ~IsFlagTok(Pieces[3])
    /\ \E name \in DOMAIN pre :
        /\ Pieces[1] = FlagTok(name)
        /\ ValidFor(pre[name].kind, Pieces[2])
        /\ ~pre[name].v_loaded
    /\ call.ret = FALSE
    /\ vars = pre

(***************************************************************************)
(* C4                                                                      *)
(***************************************************************************)
\* the positions where the flag is given a value its kind decodes
Decodable(pieces, name) ==
    {i \in Occurrences(pieces, name) : ValidFor(pre[name].kind, ValueAt(pieces, i))}

\* the last of them
LastDecodable(pieces, name) ==
    CHOOSE i \in Decodable(pieces, name) : \A j \in Decodable(pieces, name) : j <= i

\* C4: for a well-formed stream ParseFromString returns false exactly when a
\* declared flag is required and not loaded after the values have been applied;
\* and when it returns false so, every declared flag that was given a decodable
\* value is loaded with that value (the last such value, when it is given
\* several).
C4_FalseIffRequiredMissing ==
    Returned("ParseFromString") =>
        LET pieces == Pieces
        IN WellFormed(pieces) =>
            /\ call.ret = FALSE
                   <=> (\E name \in DOMAIN vars : vars[name].v_req /\ ~vars[name].v_loaded)
            /\ call.ret = FALSE =>
                  \A name \in DOMAIN pre :
                      Decodable(pieces, name) # {} =>
                          HoldsDecoded(vars[name], ValueAt(pieces, LastDecodable(pieces, name)))

\* a required flag is missing and another flag was loaded by the same call
C4_Witness ==
    /\ Returned("ParseFromString")
    /\ WellFormed(Pieces)
    /\ call.ret = FALSE
    /\ \E missing \in DOMAIN vars, given \in DOMAIN vars :
        /\ vars[missing].v_req /\ ~vars[missing].v_loaded
        /\ Occurrences(Pieces, missing) = {}
        /\ ~pre[given].v_loaded
        /\ vars[given].v_loaded

(***************************************************************************)
(* C5                                                                      *)
(***************************************************************************)
\* the token at position i belongs to a pair whose flag is not declared: it is
\* such a flag token, or the value that follows one
Undeclared(pieces, i) ==
    \/ IsFlagTok(pieces[i]) /\ Tail(pieces[i]) \notin DOMAIN pre
    \/ /\ ~IsFlagTok(pieces[i])
       /\ i > 1
       /\ IsFlagTok(pieces[i - 1])
       /\ Tail(pieces[i - 1]) \notin DOMAIN pre

RECURSIVE DeclaredFrom(_, _)
\* the tokens from position i on, without the pairs of undeclared flags
DeclaredFrom(pieces, i) ==
    IF i > Len(pieces) THEN <<>>
    ELSE (IF Undeclared(pieces, i) THEN <<>> ELSE <<pieces[i]>>) \o DeclaredFrom(pieces, i + 1)

HasUndeclared(pieces) == \E i \in 1..Len(pieces) : Undeclared(pieces, i)

\* C5: flags that are not declared never make the parse fail and never change
\* the registry: the declared names are the same after the parse, and when the
\* stream is well-formed (so that it is read as pairs) the declared flags are
\* applied, and the value returned is, as if the pairs of the undeclared flags
\* were absent, the value returned being decided by the required flags alone.
C5_UndeclaredIgnored ==
    Returned("ParseFromString") =>
        LET pieces == Pieces
        IN HasUndeclared(pieces) =>
            /\ DOMAIN vars = DOMAIN pre
            /\ \A name \in FlagNames \ DOMAIN pre : ~IsFlagIn(vars, name)
            /\ WellFormed(pieces) =>
                  /\ LET without == ParseString(pre, Join(DeclaredFrom(pieces, 1), <<" ">>))
                     IN vars = without.vars /\ call.ret = without.ret
                  /\ call.ret
                         <=> \A name \in DOMAIN vars : vars[name].v_req => vars[name].v_loaded

\* an undeclared flag with a value, then a declared flag that the call loads
C5_Witness ==
    /\ Returned("ParseFromString")
    /\ Len(Pieces) = 4
    /\ Undeclared(Pieces, 1) /\ Undeclared(Pieces, 2)
    /\ ~IsFlagTok(Pieces[2])
    /\ \E name \in DOMAIN pre :
        /\ Pieces[3] = FlagTok(name)
        /\ ~pre[name].v_loaded
        /\ vars[name].v_loaded
    /\ ~IsFlagIn(vars, Tail(Pieces[1]))
    /\ call.ret = TRUE

(***************************************************************************)
(* C2                                                                      *)
(***************************************************************************)
RECURSIVE SplitLines(_)
\* the lines of a file whose lines each end with a newline
SplitLines(data) ==
    IF data = <<>> THEN <<>>
    ELSE LET nl == CHOOSE i \in 1..Len(data) :
                       data[i] = "\n" /\ \A j \in 1..(i - 1) : data[j] # "\n"
         IN <<SubSeq(data, 1, nl - 1)>> \o SplitLines(SubSeq(data, nl + 1, Len(data)))

\* the line up to its first '#'
BeforeHash(line) ==
    IF \E i \in 1..Len(line) : line[i] = "#"
    THEN SubSeq(line, 1, (CHOOSE i \in 1..Len(line) :
                              line[i] = "#" /\ \A j \in 1..(i - 1) : line[j] # "#") - 1)
    ELSE line

\* the non-empty lines, each cut before its first '#', joined by spaces
JoinedLines(data) ==
    LET lines == SelectSeq(SplitLines(data), LAMBDA l : l # <<>>)
    IN Join([i \in 1..Len(lines) |-> BeforeHash(lines[i])], <<" ">>)

\* C2: ParseFromFile returns what ParseFromString returns, and leaves the
\* registry as ParseFromString leaves it, on the space-joined non-empty lines of
\* the file, each cut before its first '#'.
C2_FileAsJoinedLines ==
    (Returned("ParseFromFile") /\ call.opened) =>
        LET joined == ParseString(pre, JoinedLines(call.str))
        IN call.ret = joined.ret /\ vars = joined.vars

(***************************************************************************)
(* C6                                                                      *)
(***************************************************************************)
\* the call that makes this step is one in which a Set of the flag succeeds
SetSucceeds(name) ==
    /\ name \in DOMAIN vars
    /\ \/ /\ call'.op = "SetVar"
          /\ call'.name = name
          /\ ValidFor(vars[name].kind, call'.str)
       \/ /\ call'.op \in {"ParseFromString", "ParseFromFile"}
          /\ LET pieces == IF call'.op = "ParseFromString"
                           THEN Fields(call'.str)
                           ELSE Fields(FileCmdString(call'.str))
             IN /\ WellFormed(pieces)
                /\ \E i \in Occurrences(pieces, name) :
                       ValidFor(vars[name].kind, ValueAt(pieces, i))

\* the call that makes this step declares the flag anew
Redeclares(name) ==
    call'.op = "AddFlag" /\ call'.name = name /\ call'.kind \in ValidKinds

\* C6, as claimed: IsLoaded(name) is false until a Set on that flag succeeds,
\* and once true it is never false again, whatever the calls.
C6_AsClaimed ==
    [][\A name \in FlagNames :
          /\ (~IsLoadedIn(vars, name) /\ IsLoadedIn(vars', name)) => SetSucceeds(name)
          /\ IsLoadedIn(vars, name) => IsLoadedIn(vars', name)]_allvars

\* C6, amended: IsLoaded(name) is false until a Set on that flag succeeds, and
\* once true it stays true as long as AddFlag does not declare the name anew.
C6_LoadedUntilRedeclared ==
    [][\A name \in FlagNames :
          /\ (~IsLoadedIn(vars, name) /\ IsLoadedIn(vars', name)) => SetSucceeds(name)
          /\ (IsLoadedIn(vars, name) /\ ~Redeclares(name)) => IsLoadedIn(vars', name)]_allvars

\* a loaded integer flag is handed a token that does not decode, and is loaded still
C6_Witness ==
    /\ Returned("SetVar")
    /\ call.name \in DOMAIN pre
    /\ pre[call.name].kind = IntFlag
    /\ pre[call.name].v_loaded
    /\ call.str = <<"h", "i">>
    /\ IsLoadedIn(vars, call.name)

(***************************************************************************)
(* C7                                                                      *)
(***************************************************************************)
\* the raw values that are base-10 signed integers, and those that are base-10
\* floating-point numbers
IntRaws == {<<"5">>, <<"-", "5">>, <<"+", "5">>}

FloatRaws == IntRaws \cup {<<"1", ".", "5">>, <<"1", ".", "5", "0">>}

NotANumber(kind, raw) ==
    IF kind = FloatFlag THEN raw \notin FloatRaws ELSE raw \notin IntRaws

\* C7: SetVar on an Int, Int64 or Float slot with a raw token that does not
\* decode as a number of that kind changes nothing: the slot keeps its value
\* and its loaded flag, every other slot is as it was, and the call returns
\* as any other.
C7_BadNumberChangesNothing ==
    (/\ call.op = "SetVar"
     /\ call.name \in DOMAIN pre
     /\ pre[call.name].kind \in {IntFlag, Int64Flag, FloatFlag}
     /\ NotANumber(pre[call.name].kind, call.str))
        => (pc = "returned" /\ vars = pre)

\* an integer slot that holds 5 is handed "5x", beside another slot
C7_Witness ==
    /\ Returned("SetVar")
    /\ call.name \in DOMAIN pre
    /\ pre[call.name].kind = IntFlag
    /\ pre[call.name].v_loaded
    /\ pre[call.name].v_int = 5
    /\ call.str = <<"5", "x">>
    /\ DOMAIN pre = FlagNames
    /\ vars = pre

(***************************************************************************)
(* C8                                                                      *)
(***************************************************************************)
\* C8, as claimed: Set on a Bool slot sets loaded and stores true exactly when
\* the raw token is "t" or "true" in any capitalisation.
C8_AsClaimed ==
    (Returned("SetVar") /\ call.name \in DOMAIN pre /\ pre[call.name].kind = BoolFlag) =>
        /\ vars[call.name].v_loaded
        /\ vars[call.name].v_bool = (ToLower(call.str) \in {<<"t">>, <<"t", "r", "u", "e">>})

\* C8, amended: Set on a Bool slot sets loaded and stores true exactly when the
\* raw token is one of "T", "t", "True", "true" as written; every other token,
\* another capitalisation such as "TRUE" and the empty string included, stores
\* false.
C8_ExactLiterals ==
    (Returned("SetVar") /\ call.name \in DOMAIN pre /\ pre[call.name].kind = BoolFlag) =>
        /\ vars[call.name].v_loaded
        /\ vars[call.name].v_bool =
               (call.str \in {<<"T">>, <<"t">>, <<"T", "r", "u", "e">>, <<"t", "r", "u", "e">>})

\* a Bool slot that holds true is handed "TRUE" and holds false
C8_Witness ==
    /\ Returned("SetVar")
    /\ call.name \in DOMAIN pre
    /\ pre[call.name].kind = BoolFlag
    /\ pre[call.name].v_bool
    /\ call.str = <<"T", "R", "U", "E">>
    /\ vars[call.name].v_loaded
    /\ ~vars[call.name].v_bool

(***************************************************************************)
(* C9                                                                      *)
(***************************************************************************)
\* the flag is declared and given once, at position i, with no value of its
\* own, in a well-formed stream
GivenWithoutValue(pieces, name, i) ==
    /\ name \in DOMAIN pre
    /\ pieces[i] = FlagTok(name)
    /\ NoValueAt(pieces, i)
    /\ Occurrences(pieces, name) = {i}
    /\ WellFormed(pieces)

\* C9: a flag token that is the last token, or that comes right before another
\* token with a leading '-', takes one token and the value "true" whatever its
\* kind: a Bool flag ends loaded and true, a String flag ends loaded with
\* "true", an Int, Int64 or Float flag ends as it was (so that the parse returns
\* false when it is required and was not loaded), and the token after it is
\* read as a flag.
C9_NoValueMeansTrueText ==
    Returned("ParseFromString") =>
        LET pieces == Pieces
        IN \A name \in DOMAIN pre : \A i \in 1..Len(pieces) :
            GivenWithoutValue(pieces, name, i) =>
                /\ pre[name].kind = BoolFlag => (vars[name].v_loaded /\ vars[name].v_bool)
                /\ pre[name].kind = StringFlag =>
                       (vars[name].v_loaded /\ vars[name].v_str = <<"t", "r", "u", "e">>)
                /\ pre[name].kind \in {IntFlag, Int64Flag, FloatFlag} =>
                       /\ vars[name] = pre[name]
                       /\ (pre[name].v_req /\ ~pre[name].v_loaded) => call.ret = FALSE
                /\ \A next \in DOMAIN pre :
                       (/\ i < Len(pieces)
                        /\ Occurrences(pieces, next) = {i + 1}
                        /\ pre[next].kind = StringFlag)
                           => HoldsDecoded(vars[next], ValueAt(pieces, i + 1))

\* a Bool flag without a value comes right before a String flag with one
C9_Witness ==
    /\ Returned("ParseFromString")
    /\ Len(Pieces) = 3
    /\ \E name \in DOMAIN pre, next \in DOMAIN pre :
        /\ GivenWithoutValue(Pieces, name, 1)
        /\ Occurrences(Pieces, next) = {2}
        /\ pre[name].kind = BoolFlag
        /\ ~pre[name].v_loaded
        /\ pre[next].kind = StringFlag
        /\ vars[name].v_loaded /\ vars[name].v_bool
        /\ vars[next].v_str = Pieces[3]

(***************************************************************************)
(* C10                                                                     *)
(***************************************************************************)
\* C10: AddFlag with one of the five kinds on a name that is declared already
\* replaces the slot: the flag has the new kind and the new required setting, is
\* not loaded and holds the kind's zero value, and every other name keeps its
\* slot; AddFlag with any other kind changes nothing.
C10_AddFlagReplaces ==
    Returned("AddFlag") =>
        IF call.kind \in ValidKinds
        THEN /\ DOMAIN vars = DOMAIN pre \cup {call.name}
             /\ vars[call.name].kind = call.kind
             /\ IsRequiredIn(vars, call.name) = call.req
             /\ ~IsLoadedIn(vars, call.name)
             /\ vars[call.name].v_int = 0
             /\ vars[call.name].v_float = [m |-> 0, e |-> 0]
             /\ vars[call.name].v_str = <<>>
             /\ vars[call.name].v_bool = FALSE
             /\ \A other \in DOMAIN pre : other # call.name => vars[other] = pre[other]
        ELSE vars = pre

\* a loaded String flag is declared anew as an Int flag, beside a loaded flag
C10_Witness ==
    /\ Returned("AddFlag")
    /\ call.kind = IntFlag
    /\ call.name \in DOMAIN pre
    /\ pre[call.name].kind = StringFlag
    /\ pre[call.name].v_loaded
    /\ pre[call.name].v_req # call.req
    /\ \E other \in DOMAIN pre : other # call.name /\ pre[other].v_loaded
    /\ ~IsLoadedIn(vars, call.name)
    /\ GetVarIn(vars, call.name) = 0

====
